---- MODULE Spec2Model ----
(***************************************************************************)
(* parallel.cpp: runs every command `parallelism` times, one thread and    *)
(* one forked child per run, joins all threads and prints Min/Avg/Max of   *)
(* the elapsed times.                                                      *)
(*                                                                         *)
(* Strings are sequences of characters, a character being a one-letter     *)
(* string.  A double is a fraction [num, den]; den = 0 with num = 0 is the *)
(* NaN that 0.0 / 0 yields.  The decimal rendering done by operator<< is   *)
(* not modelled: the output lines carry the value that is rendered.        *)
(***************************************************************************)
EXTENDS Integers, Sequences, FiniteSets, TLC

VARIABLES
  mainpc,       \* position of main(): start, parsed, launch, join, print, exit, idle
  exitStatus,   \* termination of the parent process, NoExit while it runs
  commands,     \* ParseArgs: the command strings
  parallelism,  \* ParseArgs: value given to -n, as the int std::stoi returned
  count,        \* main: const int count
  command_i,    \* main: position of the outer for loop (1-based)
  j,            \* main: inner loop counter
  stats,        \* main: std::vector<Stats>
  threads,      \* main: std::vector<std::thread>, with each runCommand's position
  child,        \* the child process forked by each runCommand
  joined,       \* main: number of threads the join loop has passed
  out,          \* lines written to standard output
  sp_argv,      \* Split: the argument string
  sp            \* Split: p, arg, result, in_quote and whether it returned

vars == <<mainpc, exitStatus, commands, parallelism, count, command_i, j, stats,
          threads, child, joined, out, sp_argv, sp>>

mainVars == <<mainpc, exitStatus, commands, parallelism, count, command_i, j,
              stats, threads, child, joined, out>>

splitVars == <<sp_argv, sp>>

(***************************************************************************)
(* Bounds of the model.                                                    *)
(***************************************************************************)
MaxCommands == 2    \* longest command list explored
MaxTasks == 3       \* largest number of threads explored
MaxElapsed == 1     \* largest elapsed_us the clock yields
MaxLen == 6         \* longest string given to Split on its own
MaxSlots == 3       \* longest result vector given to PrintStats on its own
MaxMicros == 3      \* largest elapsed_us in a vector given to PrintStats on its own

(***************************************************************************)
(* Program constants.                                                      *)
(***************************************************************************)
EXIT_CANCELED == 125
EXIT_CANNOT_INVOKE == 126
EXIT_ENOENT == 127

Two16 == 65536               \* 2^16: an int is two 16-bit halves
IntMax == 2147483647         \* largest int

NoExit == -1                 \* the parent process has not terminated
Aborted == 134               \* std::terminate: SIGABRT, as the shell reports it
SIGSEGV == 11                \* the signal that kills a child reading address 0
Unset == -1                  \* int status before waitpid has stored into it

\* The int waitpid stores for a child that called _exit(code) or was killed
\* by the signal sig, and the macros that read it.
ExitedWith(code) == code * 256
KilledBy(sig) == sig
WIFEXITED(status) == status >= 0 /\ status % 128 = 0
WEXITSTATUS(status) == status \div 256

SPACE == " "
NEWLINE == "\n"
DQUOTE == "\""
NUL == "NUL"                 \* the terminator c_str() ends with

(***************************************************************************)
(* Split                                                                   *)
(***************************************************************************)
Chars == {"a", SPACE, NEWLINE, DQUOTE}

\* *p for the c_str() of s: the characters, then the terminator.
CharAt(s, p) == IF p <= Len(s) THEN s[p] ELSE NUL

\* State of Split at the top of the for loop.
SplitStart == [p |-> 1, arg |-> <<>>, result |-> <<>>, in_quote |-> FALSE,
               returned |-> FALSE]

\* The loop condition *p.
SplitCond(s, st) == CharAt(s, st.p) # NUL

\* SplitIter without the test of arg.empty() at a separator.
SplitIter_PushEmpty(s, separator, st) ==
  LET c == CharAt(s, st.p)
      n == CharAt(s, st.p + 1)
  IN  IF c = separator /\ ~st.in_quote
      THEN [st EXCEPT !.result = Append(@, st.arg), !.arg = <<>>, !.p = @ + 1]
      ELSE IF c = DQUOTE
      THEN IF st.in_quote /\ n # separator
           THEN IF n = DQUOTE
                THEN [st EXCEPT !.arg = Append(@, c), !.p = @ + 2,
                                !.in_quote = ~@]
                ELSE [st EXCEPT !.result = Append(@, st.arg), !.arg = <<>>,
                                !.p = @ + 1, !.in_quote = ~@]
           ELSE [st EXCEPT !.p = @ + 1, !.in_quote = ~@]
      ELSE IF (c # SPACE /\ c # NEWLINE) \/ st.in_quote
           THEN [st EXCEPT !.arg = Append(@, c), !.p = @ + 1]
           ELSE [st EXCEPT !.p = @ + 1]

\* SplitIter with the separator splitting inside quotes as well.
SplitIter_SplitInQuote(s, separator, st) ==
  LET c == CharAt(s, st.p)
      n == CharAt(s, st.p + 1)
  IN  IF c = separator
      THEN IF st.arg # <<>>
           THEN [st EXCEPT !.result = Append(@, st.arg), !.arg = <<>>,
                           !.p = @ + 1]
           ELSE [st EXCEPT !.p = @ + 1]
      ELSE IF c = DQUOTE
      THEN IF st.in_quote /\ n # separator
           THEN IF n = DQUOTE
                THEN [st EXCEPT !.arg = Append(@, c), !.p = @ + 2,
                                !.in_quote = ~@]
                ELSE [st EXCEPT !.result = Append(@, st.arg), !.arg = <<>>,
                                !.p = @ + 1, !.in_quote = ~@]
           ELSE [st EXCEPT !.p = @ + 1, !.in_quote = ~@]
      ELSE IF (c # SPACE /\ c # NEWLINE) \/ st.in_quote
           THEN [st EXCEPT !.arg = Append(@, c), !.p = @ + 1]
           ELSE [st EXCEPT !.p = @ + 1]

\* SplitIter with the extra p++ done for every double quote met in quote mode
\* before a non-separator, not only for the escape.
SplitIter_SkipAfterQuote(s, separator, st) ==
  LET c == CharAt(s, st.p)
      n == CharAt(s, st.p + 1)
  IN  IF c = separator /\ ~st.in_quote
      THEN IF st.arg # <<>>
           THEN [st EXCEPT !.result = Append(@, st.arg), !.arg = <<>>,
                           !.p = @ + 1]
           ELSE [st EXCEPT !.p = @ + 1]
      ELSE IF c = DQUOTE
      THEN IF st.in_quote /\ n # separator
           THEN IF n = DQUOTE
                THEN [st EXCEPT !.arg = Append(@, c), !.p = @ + 2,
                                !.in_quote = ~@]
                ELSE [st EXCEPT !.result = Append(@, st.arg), !.arg = <<>>,
                                !.p = @ + 2, !.in_quote = ~@]
           ELSE [st EXCEPT !.p = @ + 1, !.in_quote = ~@]
      ELSE IF (c # SPACE /\ c # NEWLINE) \/ st.in_quote
           THEN [st EXCEPT !.arg = Append(@, c), !.p = @ + 1]
           ELSE [st EXCEPT !.p = @ + 1]

\* One iteration of the for loop, the ++p included.
SplitIter(s, separator, st) ==
  LET c == CharAt(s, st.p)
      n == CharAt(s, st.p + 1)
  IN  IF c = separator /\ ~st.in_quote
      THEN IF st.arg # <<>>
           THEN [st EXCEPT !.result = Append(@, st.arg), !.arg = <<>>,
                           !.p = @ + 1]
           ELSE [st EXCEPT !.p = @ + 1]
      ELSE IF c = DQUOTE
      THEN IF st.in_quote /\ n # separator
           THEN IF n = DQUOTE
                THEN [st EXCEPT !.arg = Append(@, c), !.p = @ + 2,
                                !.in_quote = ~@]
                ELSE [st EXCEPT !.result = Append(@, st.arg), !.arg = <<>>,
                                !.p = @ + 1, !.in_quote = ~@]
           ELSE [st EXCEPT !.p = @ + 1, !.in_quote = ~@]
      ELSE IF (c # SPACE /\ c # NEWLINE) \/ st.in_quote
           THEN [st EXCEPT !.arg = Append(@, c), !.p = @ + 1]
           ELSE [st EXCEPT !.p = @ + 1]

\* The code after the loop: the last push and the return.
SplitReturn(st) ==
  IF st.arg # <<>>
  THEN [st EXCEPT !.result = Append(@, st.arg), !.returned = TRUE]
  ELSE [st EXCEPT !.returned = TRUE]

RECURSIVE SplitLoop(_, _, _)
SplitLoop(s, separator, st) ==
  IF SplitCond(s, st)
  THEN SplitLoop(s, separator, SplitIter(s, separator, st))
  ELSE SplitReturn(st)

\* Split(argv, separator): the returned vector.
Split(s, separator) == SplitLoop(s, separator, SplitStart).result

(***************************************************************************)
(* Stats and PrintStats                                                    *)
(***************************************************************************)
\* struct Stats, as constructed.
ZeroStats == [success |-> FALSE, elapsed_us |-> 0]

\* A double holding the integer v.
D(v) == [num |-> v, den |-> 1]

\* a < b for doubles that are numbers.
DLess(a, b) == a.num * b.den < b.num * a.den

\* std::min and std::max.
DMin(a, b) == IF DLess(b, a) THEN b ELSE a
DMax(a, b) == IF DLess(a, b) THEN b ELSE a

\* a / k for a non-negative integer k; 0.0 / 0 is NaN (num = 0, den = 0).
DDiv(a, k) == [num |-> a.num, den |-> a.den * k]

\* PrintStatsIter without the test of stat.success.
PrintStatsIter_NoFilter(acc, stat) ==
  IF acc.success_count = 0
  THEN [min |-> D(stat.elapsed_us), max |-> D(stat.elapsed_us),
        avg |-> D(stat.elapsed_us), success_count |-> 1]
  ELSE [min |-> DMin(acc.min, D(stat.elapsed_us)),
        max |-> DMax(acc.max, D(stat.elapsed_us)),
        avg |-> [acc.avg EXCEPT !.num = @ + stat.elapsed_us],
        success_count |-> acc.success_count + 1]

\* The body of the for loop of PrintStats on one element.
PrintStatsIter(acc, stat) ==
  IF stat.success
  THEN IF acc.success_count = 0
       THEN [min |-> D(stat.elapsed_us), max |-> D(stat.elapsed_us),
             avg |-> D(stat.elapsed_us), success_count |-> 1]
       ELSE [min |-> DMin(acc.min, D(stat.elapsed_us)),
             max |-> DMax(acc.max, D(stat.elapsed_us)),
             avg |-> [acc.avg EXCEPT !.num = @ + stat.elapsed_us],
             success_count |-> acc.success_count + 1]
  ELSE acc

RECURSIVE PrintStatsLoop(_, _, _)
PrintStatsLoop(v, i, acc) ==
  IF i > Len(v) THEN acc ELSE PrintStatsLoop(v, i + 1, PrintStatsIter(acc, v[i]))

\* PrintStats(stats): the three lines, each with the value it renders.
PrintStats(v) ==
  LET acc == PrintStatsLoop(v, 1, [min |-> D(0), max |-> D(0), avg |-> D(0),
                                   success_count |-> 0])
      avg == DDiv(acc.avg, acc.success_count)
  IN  << [label |-> "Min", ms |-> DDiv(acc.min, 1000)],
         [label |-> "Avg", ms |-> DDiv(avg, 1000)],
         [label |-> "Max", ms |-> DDiv(acc.max, 1000)] >>

(***************************************************************************)
(* ParseArgs and the sizes main computes                                   *)
(***************************************************************************)
\* The value following -n: none given, -n as the last argument, a text
\* std::stoi rejects, or the int std::stoi returns.  2^30 is the smallest
\* value whose product with two commands leaves the range of int.
NValues == {-1, 0, 1, 2, 3, 1073741824}
NOptions == {"absent", "missing", "bad", "int"}

CommandStrings == {<<"a">>, <<SPACE>>}

RECURSIVE SeqsUpTo(_, _)
SeqsUpTo(S, n) ==
  IF n = 0 THEN {<<>>}
  ELSE LET shorter == SeqsUpTo(S, n - 1)
       IN  shorter \cup {Append(q, x) : q \in {r \in shorter : Len(r) = n - 1}, x \in S}

\* int count = commands.size() * parallelism: the low 32 bits of the
\* product, read as a signed int.  n is the int held (sign-extended) by the
\* size_t parallelism.
CountOf(len, n) ==
  LET lo == len * (n % Two16)
      hi == len * (n \div Two16) + (lo \div Two16)
      hi16 == hi % Two16
      lo16 == lo % Two16
  IN  IF hi16 >= Two16 \div 2 THEN (hi16 - Two16) * Two16 + lo16
      ELSE hi16 * Two16 + lo16

\* x is the number len * n (n >= 0), computed without leaving TLC's integers.
ProductIs(x, len, n) ==
  /\ n >= 0
  /\ IF len = 0 THEN x = 0 ELSE n <= IntMax \div len /\ x = len * n

\* j < parallelism, the int j converted to size_t.
LoopCond(jj, n) == IF n < 0 THEN TRUE ELSE jj < n

\* The runs followed: reserve throws (count < 0), or count is the true
\* product and within the bound on threads.
Explored(cmds, n) ==
  LET c == CountOf(Len(cmds), n)
  IN  IF c < 0 THEN TRUE ELSE ProductIs(c, Len(cmds), n) /\ c <= MaxTasks

(***************************************************************************)
(* The program                                                             *)
(***************************************************************************)
Running == exitStatus = NoExit

NoChild == [st |-> "none", status |-> Unset, err |-> "none"]

Init ==
  /\ mainpc = "start"
  /\ exitStatus = NoExit
  /\ commands = <<>>
  /\ parallelism = 1
  /\ count = 0
  /\ command_i = 1
  /\ j = 0
  /\ stats = <<>>
  /\ threads = <<>>
  /\ child = <<>>
  /\ joined = 0
  /\ out = <<>>
  /\ sp_argv = <<>>
  /\ sp = SplitStart

\* main up to the return of ParseArgs, for the arguments (nopt, cmds).
Main_ParseArgs ==
  /\ Running /\ mainpc = "start"
  /\ \E nopt \in NOptions, v \in NValues,
        cmds \in SeqsUpTo(CommandStrings, MaxCommands) :
       LET n == IF nopt = "int" THEN v ELSE 1
           usage == nopt \in {"missing", "bad"} \/ cmds = <<>>
       IN  /\ IF usage THEN TRUE ELSE Explored(cmds, n)
           /\ IF usage
              THEN /\ exitStatus' = 1
                   /\ UNCHANGED <<mainpc, commands, parallelism>>
              ELSE /\ mainpc' = "parsed"
                   /\ commands' = cmds
                   /\ parallelism' = n
                   /\ UNCHANGED exitStatus
  /\ UNCHANGED <<count, command_i, j, stats, threads, child, joined, out>>
  /\ UNCHANGED splitVars

\* Main_Alloc with one slot more than count.
Main_Alloc_ExtraSlot ==
  /\ Running /\ mainpc = "parsed"
  /\ LET c == CountOf(Len(commands), parallelism)
     IN  /\ count' = c
         /\ IF c < 0
            THEN /\ exitStatus' = Aborted
                 /\ UNCHANGED <<mainpc, stats>>
            ELSE /\ mainpc' = "launch"
                 /\ stats' = [k \in 1..(c + 1) |-> ZeroStats]
                 /\ UNCHANGED exitStatus
  /\ UNCHANGED <<commands, parallelism, command_i, j, threads, child, joined, out>>
  /\ UNCHANGED splitVars

\* main: count, threads.reserve(count), stats(count), stat_index = 0.
Main_Alloc ==
  /\ Running /\ mainpc = "parsed"
  /\ LET c == CountOf(Len(commands), parallelism)
     IN  /\ count' = c
         /\ IF c < 0
            THEN /\ exitStatus' = Aborted      \* std::length_error, uncaught
                 /\ UNCHANGED <<mainpc, stats>>
            ELSE /\ mainpc' = "launch"
                 /\ stats' = [k \in 1..c |-> ZeroStats]
                 /\ UNCHANGED exitStatus
  /\ UNCHANGED <<commands, parallelism, command_i, j, threads, child, joined, out>>
  /\ UNCHANGED splitVars

\* Main_Launch without the increment of stat_index: every thread gets
\* stats[0].
Main_Launch_SameSlot ==
  /\ Running /\ mainpc = "launch"
  /\ command_i <= Len(commands) /\ LoopCond(j, parallelism)
  /\ threads' = Append(threads, [pc |-> "start", slot |-> 1,
                                 command |-> commands[command_i],
                                 status |-> Unset])
  /\ child' = Append(child, NoChild)
  /\ j' = j + 1
  /\ UNCHANGED <<mainpc, exitStatus, commands, parallelism, count, command_i,
                 stats, joined, out>>
  /\ UNCHANGED splitVars

\* Main_Launch that starts a thread only once the threads before it have
\* returned.
Main_Launch_Serial ==
  /\ Running /\ mainpc = "launch"
  /\ command_i <= Len(commands) /\ LoopCond(j, parallelism)
  /\ \A i \in 1..Len(threads) : threads[i].pc = "done"
  /\ threads' = Append(threads, [pc |-> "start", slot |-> Len(threads) + 1,
                                 command |-> commands[command_i],
                                 status |-> Unset])
  /\ child' = Append(child, NoChild)
  /\ j' = j + 1
  /\ UNCHANGED <<mainpc, exitStatus, commands, parallelism, count, command_i,
                 stats, joined, out>>
  /\ UNCHANGED splitVars

\* One threads.emplace_back(runCommand, command, std::ref(stats[stat_index++])).
\* stat_index is the number of threads created so far.
Main_Launch ==
  /\ Running /\ mainpc = "launch"
  /\ command_i <= Len(commands) /\ LoopCond(j, parallelism)
  /\ threads' = Append(threads, [pc |-> "start", slot |-> Len(threads) + 1,
                                 command |-> commands[command_i],
                                 status |-> Unset])
  /\ child' = Append(child, NoChild)
  /\ j' = j + 1
  /\ UNCHANGED <<mainpc, exitStatus, commands, parallelism, count, command_i,
                 stats, joined, out>>
  /\ UNCHANGED splitVars

\* The inner loop ends: the outer loop takes the next command.
Main_NextCommand ==
  /\ Running /\ mainpc = "launch"
  /\ command_i <= Len(commands) /\ ~LoopCond(j, parallelism)
  /\ command_i' = command_i + 1
  /\ j' = 0
  /\ UNCHANGED <<mainpc, exitStatus, commands, parallelism, count, stats,
                 threads, child, joined, out>>
  /\ UNCHANGED splitVars

\* The outer loop ends: main goes on to the join loop.
Main_LaunchDone ==
  /\ Running /\ mainpc = "launch"
  /\ command_i > Len(commands)
  /\ mainpc' = "join"
  /\ UNCHANGED <<exitStatus, commands, parallelism, count, command_i, j, stats,
                 threads, child, joined, out>>
  /\ UNCHANGED splitVars

\* Main_Join without the wait: the thread is passed whether or not it has
\* returned (a detach in place of the join).
Main_Join_NoWait ==
  /\ Running /\ mainpc = "join"
  /\ joined < Len(threads)
  /\ joined' = joined + 1
  /\ UNCHANGED <<mainpc, exitStatus, commands, parallelism, count, command_i, j,
                 stats, threads, child, out>>
  /\ UNCHANGED splitVars

\* thread.join() returns for the next thread, which has returned.
Main_Join ==
  /\ Running /\ mainpc = "join"
  /\ joined < Len(threads)
  /\ threads[joined + 1].pc = "done"
  /\ joined' = joined + 1
  /\ UNCHANGED <<mainpc, exitStatus, commands, parallelism, count, command_i, j,
                 stats, threads, child, out>>
  /\ UNCHANGED splitVars

\* The join loop ends.
Main_JoinDone ==
  /\ Running /\ mainpc = "join"
  /\ joined = Len(threads)
  /\ mainpc' = "print"
  /\ UNCHANGED <<exitStatus, commands, parallelism, count, command_i, j, stats,
                 threads, child, joined, out>>
  /\ UNCHANGED splitVars

\* PrintStats(stats).
Main_PrintStats ==
  /\ Running /\ mainpc = "print"
  /\ out' = out \o PrintStats(stats)
  /\ mainpc' = "exit"
  /\ UNCHANGED <<exitStatus, commands, parallelism, count, command_i, j, stats,
                 threads, child, joined>>
  /\ UNCHANGED splitVars

\* _exit(0).
Main_Exit ==
  /\ Running /\ mainpc = "exit"
  /\ exitStatus' = 0
  /\ UNCHANGED <<mainpc, commands, parallelism, count, command_i, j, stats,
                 threads, child, joined, out>>
  /\ UNCHANGED splitVars

(***************************************************************************)
(* runCommand, in the thread of task i, and the child it forks             *)
(***************************************************************************)
Tasks == 1..Len(threads)

\* Exit statuses of a program that was exec'ed and terminated by itself.
ProgramExits == {0, 1}

\* What execvp fails with when there is a program name to look up.
ExecErrors == {"ENOENT", "EACCES"}

\* ExecFailureStatus with the two statuses exchanged.
ExecFailureStatus_Swapped(saved_errno) ==
  IF saved_errno = "ENOENT" THEN EXIT_CANNOT_INVOKE ELSE EXIT_ENOENT

\* _exit(saved_errno == ENOENT ? EXIT_ENOENT : EXIT_CANNOT_INVOKE).
ExecFailureStatus(saved_errno) ==
  IF saved_errno = "ENOENT" THEN EXIT_ENOENT ELSE EXIT_CANNOT_INVOKE

\* fork() returns the pid of a new child.
Task_Fork(i) ==
  /\ Running /\ threads[i].pc = "start"
  /\ threads' = [threads EXCEPT ![i].pc = "wait"]
  /\ child' = [child EXCEPT ![i].st = "forked"]
  /\ UNCHANGED <<mainpc, exitStatus, commands, parallelism, count, command_i, j,
                 stats, joined, out>>
  /\ UNCHANGED splitVars

\* fork() returns -1: the thread calls exit(EXIT_CANCELED), which runs the
\* exit handlers while the other threads go on.
Task_ForkFail(i) ==
  /\ Running /\ threads[i].pc = "start"
  /\ threads' = [threads EXCEPT ![i].pc = "exiting"]
  /\ UNCHANGED <<mainpc, exitStatus, commands, parallelism, count, command_i, j,
                 stats, child, joined, out>>
  /\ UNCHANGED splitVars

\* exit(EXIT_CANCELED) ends the process.
Task_ExitCanceled(i) ==
  /\ Running /\ threads[i].pc = "exiting"
  /\ exitStatus' = EXIT_CANCELED
  /\ UNCHANGED <<mainpc, commands, parallelism, count, command_i, j, stats,
                 threads, child, joined, out>>
  /\ UNCHANGED splitVars

\* Child_Exec with the exec failure ending the parent process as well.
Child_Exec_ExitsParent(i) ==
  /\ Running /\ child[i].st = "forked"
  /\ \/ /\ child' = [child EXCEPT ![i].st = "running"]
        /\ UNCHANGED exitStatus
     \/ \E e \in {"ENOENT", "EACCES"} :
          /\ child' = [child EXCEPT ![i] =
               [st |-> "exited",
                status |-> ExitedWith(IF e = "ENOENT" THEN EXIT_ENOENT
                                      ELSE EXIT_CANNOT_INVOKE),
                err |-> e]]
          /\ exitStatus' = IF e = "ENOENT" THEN EXIT_ENOENT ELSE EXIT_CANNOT_INVOKE
  /\ UNCHANGED <<mainpc, commands, parallelism, count, command_i, j,
                 stats, threads, joined, out>>
  /\ UNCHANGED splitVars

\* The child: Split, the argument vector, execvp.  With no token args[0] is
\* the null pointer and execvp(nullptr, ...) is undefined: the child is
\* killed by a signal, or execvp fails with EFAULT.  Otherwise the program
\* starts, or execvp fails and the child reports it and _exits.
Child_Exec(i) ==
  /\ Running /\ child[i].st = "forked"
  /\ LET cmd == Split(threads[i].command, SPACE)
     IN  IF cmd = <<>>
         THEN \/ child' = [child EXCEPT ![i] =
                     [st |-> "exited", status |-> KilledBy(SIGSEGV), err |-> "none"]]
              \/ child' = [child EXCEPT ![i] =
                     [st |-> "exited",
                      status |-> ExitedWith(ExecFailureStatus("EFAULT")),
                      err |-> "EFAULT"]]
         ELSE \/ child' = [child EXCEPT ![i].st = "running"]
              \/ \E e \in ExecErrors :
                   child' = [child EXCEPT ![i] =
                     [st |-> "exited", status |-> ExitedWith(ExecFailureStatus(e)),
                      err |-> e]]
  /\ UNCHANGED <<mainpc, exitStatus, commands, parallelism, count, command_i, j,
                 stats, threads, joined, out>>
  /\ UNCHANGED splitVars

\* The exec'ed program terminates.
Child_Exit(i) ==
  /\ Running /\ child[i].st = "running"
  /\ \E s \in ProgramExits :
       child' = [child EXCEPT ![i] =
         [st |-> "exited", status |-> ExitedWith(s), err |-> "none"]]
  /\ UNCHANGED <<mainpc, exitStatus, commands, parallelism, count, command_i, j,
                 stats, threads, joined, out>>
  /\ UNCHANGED splitVars

\* What the task stores once waitpid has returned the pid.
Recorded(e) == [success |-> TRUE, elapsed_us |-> e]

\* Task_Wait with success taken from the child's exit code.
Task_Wait_ExitCode(i) ==
  /\ Running /\ threads[i].pc = "wait"
  /\ child[i].st = "exited"
  /\ \E e \in 0..MaxElapsed :
       stats' = [stats EXCEPT ![threads[i].slot] =
                   [success |-> WIFEXITED(child[i].status)
                                  /\ WEXITSTATUS(child[i].status) = 0,
                    elapsed_us |-> e]]
  /\ threads' = [threads EXCEPT ![i].pc = "done", ![i].status = child[i].status]
  /\ child' = [child EXCEPT ![i].st = "reaped"]
  /\ UNCHANGED <<mainpc, exitStatus, commands, parallelism, count, command_i, j,
                 joined, out>>
  /\ UNCHANGED splitVars

\* Task_Wait that does not block: it returns whether or not the child has
\* terminated (WNOHANG, or a wait that times out).
Task_Wait_NoHang(i) ==
  /\ Running /\ threads[i].pc = "wait"
  /\ \E e \in 0..MaxElapsed :
       stats' = [stats EXCEPT ![threads[i].slot] =
                   [success |-> TRUE, elapsed_us |-> e]]
  /\ threads' = [threads EXCEPT ![i].pc = "done", ![i].status = child[i].status]
  /\ child' = [child EXCEPT ![i].st = IF @ = "exited" THEN "reaped" ELSE @]
  /\ UNCHANGED <<mainpc, exitStatus, commands, parallelism, count, command_i, j,
                 joined, out>>
  /\ UNCHANGED splitVars

\* Task_Wait that waits for any child of the process (waitpid(-1, ...)).
Task_Wait_AnyChild(i) ==
  /\ Running /\ threads[i].pc = "wait"
  /\ \E k \in 1..Len(threads) :
       /\ child[k].st = "exited"
       /\ threads' = [threads EXCEPT ![i].pc = "done",
                                     ![i].status = child[k].status]
       /\ child' = [child EXCEPT ![k].st = "reaped"]
  /\ \E e \in 0..MaxElapsed :
       stats' = [stats EXCEPT ![threads[i].slot] =
                   [success |-> TRUE, elapsed_us |-> e]]
  /\ UNCHANGED <<mainpc, exitStatus, commands, parallelism, count, command_i, j,
                 joined, out>>
  /\ UNCHANGED splitVars

\* waitpid(pid, &status, 0) returns the pid of the terminated child; the task
\* fills its Stats and returns.  The steady clock yields an elapsed time >= 0.
Task_Wait(i) ==
  /\ Running /\ threads[i].pc = "wait"
  /\ child[i].st = "exited"
  /\ \E e \in 0..MaxElapsed :
       stats' = [stats EXCEPT ![threads[i].slot] = Recorded(e)]
  /\ threads' = [threads EXCEPT ![i].pc = "done", ![i].status = child[i].status]
  /\ child' = [child EXCEPT ![i].st = "reaped"]
  /\ UNCHANGED <<mainpc, exitStatus, commands, parallelism, count, command_i, j,
                 joined, out>>
  /\ UNCHANGED splitVars

\* Task_WaitFail ending the process with the generic failure status.
Task_WaitFail_Status1(i) ==
  /\ Running /\ threads[i].pc = "wait"
  /\ threads' = [threads EXCEPT ![i].pc = "waitfailed"]
  /\ exitStatus' = 1
  /\ UNCHANGED <<mainpc, commands, parallelism, count, command_i, j, stats,
                 child, joined, out>>
  /\ UNCHANGED splitVars

\* waitpid returns -1: _exit(EXIT_CANCELED) ends the process at once.
Task_WaitFail(i) ==
  /\ Running /\ threads[i].pc = "wait"
  /\ threads' = [threads EXCEPT ![i].pc = "waitfailed"]
  /\ exitStatus' = EXIT_CANCELED
  /\ UNCHANGED <<mainpc, commands, parallelism, count, command_i, j, stats,
                 child, joined, out>>
  /\ UNCHANGED splitVars

Next ==
  \/ Main_ParseArgs
  \/ Main_Alloc
  \/ Main_Launch
  \/ Main_NextCommand
  \/ Main_LaunchDone
  \/ Main_Join
  \/ Main_JoinDone
  \/ Main_PrintStats
  \/ Main_Exit
  \/ \E i \in Tasks : Task_Fork(i)
  \/ \E i \in Tasks : Task_ForkFail(i)
  \/ \E i \in Tasks : Task_ExitCanceled(i)
  \/ \E i \in Tasks : Child_Exec(i)
  \/ \E i \in Tasks : Child_Exit(i)
  \/ \E i \in Tasks : Task_Wait(i)
  \/ \E i \in Tasks : Task_WaitFail(i)

Spec == Init /\ [][Next]_vars

(***************************************************************************)
(* Split on its own: every string up to MaxLen, one loop iteration a step  *)
(***************************************************************************)
InitSplit ==
  /\ mainpc = "idle"
  /\ exitStatus = NoExit
  /\ commands = <<>>
  /\ parallelism = 1
  /\ count = 0
  /\ command_i = 1
  /\ j = 0
  /\ stats = <<>>
  /\ threads = <<>>
  /\ child = <<>>
  /\ joined = 0
  /\ out = <<>>
  /\ sp_argv \in SeqsUpTo(Chars, MaxLen)
  /\ sp = SplitStart

Split_Step ==
  /\ ~sp.returned
  /\ SplitCond(sp_argv, sp)
  /\ sp' = SplitIter(sp_argv, SPACE, sp)
  /\ UNCHANGED sp_argv
  /\ UNCHANGED mainVars

Split_Return ==
  /\ ~sp.returned
  /\ ~SplitCond(sp_argv, sp)
  /\ sp' = SplitReturn(sp)
  /\ UNCHANGED sp_argv
  /\ UNCHANGED mainVars

NextSplit == Split_Step \/ Split_Return

SpecSplit == InitSplit /\ [][NextSplit]_vars

\* The for loop of Split always reaches its next iteration or its end.
FairSpecSplit == SpecSplit /\ WF_vars(NextSplit)

(***************************************************************************)
(* PrintStats on its own: every vector of Stats up to MaxSlots             *)
(***************************************************************************)
StatsValues == [success : BOOLEAN, elapsed_us : 0..MaxMicros]

InitPrintStats ==
  /\ mainpc = "print"
  /\ exitStatus = NoExit
  /\ commands = <<>>
  /\ parallelism = 1
  /\ stats \in SeqsUpTo(StatsValues, MaxSlots)
  /\ count = Len(stats)
  /\ command_i = 1
  /\ j = 0
  /\ threads = <<>>
  /\ child = <<>>
  /\ joined = 0
  /\ out = <<>>
  /\ sp_argv = <<>>
  /\ sp = SplitStart

NextPrintStats == Main_PrintStats \/ Main_Exit

SpecPrintStats == InitPrintStats /\ [][NextPrintStats]_vars

(***************************************************************************)
(* Properties                                                              *)
(***************************************************************************)
Range(f) == {f[x] : x \in DOMAIN f}

\* A fork or a wait has failed in some task.
OsFailure == \E i \in Tasks : threads[i].pc \in {"exiting", "waitfailed"}

\* The three lines of PrintStats are on standard output, once.
StatsPrinted ==
  /\ Len(out) = 3
  /\ out[1].label = "Min" /\ out[2].label = "Avg" /\ out[3].label = "Max"

\* A rendered value is the number zero.
IsZero(d) == d.num = 0 /\ d.den # 0

\* C1: when main is at PrintStats or past it, every thread it launched has
\* returned, there are len(commands) * parallelism slots and as many
\* threads, and every slot has been written by its task.
C1_JoinBarrier ==
  mainpc \in {"print", "exit"} =>
    /\ ProductIs(Len(stats), Len(commands), parallelism)
    /\ Len(threads) = Len(stats)
    /\ \A i \in Tasks : threads[i].pc = "done" /\ stats[threads[i].slot].success
    /\ \A k \in 1..Len(stats) : \E i \in Tasks : threads[i].slot = k

C1_Witness ==
  /\ mainpc = "print" /\ out = <<>>
  /\ Len(threads) = MaxTasks
  /\ \A i \in Tasks : threads[i].pc = "done"

\* C2 (as claimed): for parallelism >= 1 and a non-empty command list, the
\* slots allocated and the threads launched both number
\* len(commands) * parallelism, and every slot index given to a task lies in
\* the allocated vector.
C2_TaskCount ==
  (parallelism >= 1 /\ commands # <<>>) =>
    /\ (mainpc \in {"launch", "join", "print", "exit"} \/ exitStatus = Aborted)
         => ProductIs(Len(stats), Len(commands), parallelism)
    /\ mainpc \in {"join", "print", "exit"}
         => ProductIs(Len(threads), Len(commands), parallelism)
    /\ \A i \in Tasks : threads[i].slot \in 1..Len(stats)

\* C3: a task whose waitpid has returned its child has success = true in its
\* slot, whatever the status of the child.
C3_SuccessIgnoresStatus ==
  \A i \in Tasks :
    threads[i].status # Unset => stats[threads[i].slot].success

C3_Witness ==
  \E i, k \in Tasks :
    /\ threads[i].pc = "done" /\ threads[k].pc = "done"
    /\ WEXITSTATUS(threads[i].status) = EXIT_ENOENT
    /\ WEXITSTATUS(threads[k].status) = 1
    /\ stats[threads[i].slot].success /\ stats[threads[k].slot].success

\* C4: the step in which a child fails to exec changes that child only: the
\* parent process goes on, main and every thread stay where they are, the
\* slots, the output and the other children are untouched.
C4_ExecFailureLocal ==
  [][\A i \in Tasks :
       (child[i].st = "forked" /\ child'[i].st = "exited" /\ child'[i].err # "none")
         => /\ exitStatus' = exitStatus
            /\ mainpc' = mainpc
            /\ threads' = threads
            /\ stats' = stats
            /\ out' = out
            /\ joined' = joined
            /\ \A k \in Tasks \ {i} : child'[k] = child[k]]_vars

C4_Witness ==
  /\ exitStatus = 0 /\ StatsPrinted
  /\ \E i, k \in Tasks :
       /\ child[i].err = "ENOENT"
       /\ child[k].err = "none" /\ WEXITSTATUS(threads[k].status) = 0
       /\ threads[k].slot > threads[i].slot

\* C5: once a fork or a wait has failed in a task, main is not at PrintStats
\* or past it, nothing is on standard output, and the process is either
\* still inside exit(EXIT_CANCELED) or has ended with status 125; after a
\* failed wait it has ended.
C5_FatalIs125 ==
  OsFailure =>
    /\ out = <<>>
    /\ mainpc \notin {"print", "exit"}
    /\ exitStatus \in {NoExit, EXIT_CANCELED}
    /\ (\E i \in Tasks : threads[i].pc = "waitfailed") => exitStatus = EXIT_CANCELED

C5_Witness ==
  /\ exitStatus = EXIT_CANCELED
  /\ \E i, k \in Tasks :
       /\ threads[i].pc = "waitfailed"
       /\ threads[k].pc = "wait" /\ child[k].st = "running"

\* C6: a child whose exec failed has exited with 127 when the error is
\* ENOENT and with 126 for any other error, never with 125, and its slot is
\* not set before the parent's own waitpid has returned.
C6_ExecFailureStatus ==
  \A i \in Tasks :
    child[i].err # "none" =>
      /\ WIFEXITED(child[i].status)
      /\ child[i].err = "ENOENT" => WEXITSTATUS(child[i].status) = 127
      /\ child[i].err # "ENOENT" => WEXITSTATUS(child[i].status) = 126
      /\ WEXITSTATUS(child[i].status) # 125
      /\ child[i].st = "exited" => ~stats[threads[i].slot].success

C6_Witness ==
  \E i, k \in Tasks :
    /\ child[i].err = "ENOENT" /\ WEXITSTATUS(child[i].status) = 127
    /\ child[k].err = "EACCES" /\ WEXITSTATUS(child[k].status) = 126

\* C7 (as claimed): a run that got past the argument check and has ended
\* without a failed fork or wait has printed the three lines Min, Avg, Max
\* once and has ended with status 0.
C7_NormalCompletion ==
  (exitStatus # NoExit /\ mainpc # "start" /\ ~OsFailure) =>
    exitStatus = 0 /\ StatsPrinted

\* C8 (as claimed): when no slot has success = true, the three values
\* printed are all zero.
C8_NoSuccessAllZero ==
  (out # <<>> /\ \A k \in 1..Len(stats) : ~stats[k].success) =>
    \A l \in 1..Len(out) : IsZero(out[l].ms)

\* The elapsed times of the successful entries, their sum and their number.
Successes(v) == {k \in 1..Len(v) : v[k].success}

RECURSIVE SumElapsed(_, _)
SumElapsed(v, K) ==
  IF K = {} THEN 0
  ELSE LET k == CHOOSE x \in K : TRUE
       IN  v[k].elapsed_us + SumElapsed(v, K \ {k})

\* The value rendered is x / y milliseconds' worth of microseconds:
\* d = (x / y) / 1000.
IsMsOf(d, x, y) == d.den # 0 /\ d.num * y * 1000 = x * d.den

\* C9: with at least one successful entry, Min is the least and Max the
\* greatest elapsed time of the successful entries and Avg is their sum
\* divided by their number; the other entries have no influence.
C9_MinAvgMax ==
  (out # <<>> /\ Successes(stats) # {}) =>
    LET S == Successes(stats)
    IN  /\ \E k \in S : /\ IsMsOf(out[1].ms, stats[k].elapsed_us, 1)
                        /\ \A m \in S : stats[k].elapsed_us <= stats[m].elapsed_us
        /\ \E k \in S : /\ IsMsOf(out[3].ms, stats[k].elapsed_us, 1)
                        /\ \A m \in S : stats[k].elapsed_us >= stats[m].elapsed_us
        /\ IsMsOf(out[2].ms, SumElapsed(stats, S), Cardinality(S))

C9_Witness ==
  /\ StatsPrinted /\ Len(stats) = 3
  /\ ~stats[1].success /\ stats[1].elapsed_us = 0
  /\ stats[2].success /\ stats[2].elapsed_us = 3
  /\ stats[3].success /\ stats[3].elapsed_us = 2

\* Splitting at every character of Seps, empty pieces kept.
RECURSIVE Pieces(_, _)
Pieces(s, Seps) ==
  IF s = <<>> THEN << <<>> >>
  ELSE LET rest == Pieces(Tail(s), Seps)
       IN  IF Head(s) \in Seps THEN << <<>> >> \o rest
           ELSE << <<Head(s)>> \o Head(rest) >> \o Tail(rest)

NonEmpty(piece) == piece # <<>>
NotNewline(c) == c # NEWLINE

RECURSIVE WithoutNewlines(_)
WithoutNewlines(ps) ==
  IF ps = <<>> THEN <<>>
  ELSE << SelectSeq(Head(ps), NotNewline) >> \o WithoutNewlines(Tail(ps))

NoQuote(s) == DQUOTE \notin Range(s)

\* C10 (as claimed): for a string without a double quote Split returns the
\* pieces between maximal runs of spaces and newlines, empty pieces dropped.
C10_SplitOnSpaceAndNewline ==
  (sp.returned /\ NoQuote(sp_argv)) =>
    sp.result = SelectSeq(Pieces(sp_argv, {SPACE, NEWLINE}), NonEmpty)

\* C10 (amended): for a string without a double quote Split returns the
\* pieces between maximal runs of spaces, with every newline deleted from
\* them and the pieces that are then empty dropped: a newline does not
\* separate two tokens.
C10_SplitOnSpace ==
  (sp.returned /\ NoQuote(sp_argv)) =>
    sp.result = SelectSeq(WithoutNewlines(Pieces(sp_argv, {SPACE})), NonEmpty)

C10_Witness ==
  /\ sp.returned
  /\ sp_argv = <<"a", NEWLINE, "a", SPACE>>
  /\ sp.result = << <<"a", "a">> >>

\* The scanner is at two consecutive double quotes in quote mode.
AtEscape ==
  /\ ~sp.returned /\ sp.in_quote
  /\ CharAt(sp_argv, sp.p) = DQUOTE
  /\ CharAt(sp_argv, sp.p + 1) = DQUOTE

\* C11 (as claimed): at two consecutive double quotes in quote mode the
\* scanner appends one double quote to the token and is still in quote mode
\* afterwards.
C11_EscapeStaysInQuote ==
  [][AtEscape => (sp'.arg = Append(sp.arg, DQUOTE) /\ sp'.in_quote)]_vars

\* C12 (as claimed): no token of the result is empty, at any point of the
\* scan and at the return.
C12_NoEmptyToken ==
  \A k \in 1..Len(sp.result) : sp.result[k] # <<>>

\* The scanner, outside quotes and with no token begun, is at a double quote
\* that opens a section closed by the double quote at q, with no double
\* quote in between and a space or the end of input after q.
OpensSection(q) ==
  /\ ~sp.returned /\ ~sp.in_quote /\ sp.arg = <<>>
  /\ CharAt(sp_argv, sp.p) = DQUOTE
  /\ q \in (sp.p + 1)..Len(sp_argv)
  /\ sp_argv[q] = DQUOTE
  /\ \A x \in (sp.p + 1)..(q - 1) : sp_argv[x] # DQUOTE
  /\ CharAt(sp_argv, q + 1) \in {SPACE, NUL}

\* The loop of Split run from the state st until p has reached pos.
RECURSIVE RunTo(_, _, _)
RunTo(s, st, pos) ==
  IF st.p < pos /\ SplitCond(s, st) THEN RunTo(s, SplitIter(s, SPACE, st), pos)
  ELSE st

\* The scanner state once the section closed at q, and the space after it if
\* there is one, have been scanned.
AfterSection(q) ==
  RunTo(sp_argv, sp, IF CharAt(sp_argv, q + 1) = SPACE THEN q + 2 ELSE q + 1)

\* The section has added the one token made of the characters between the
\* two double quotes, and the scanner is outside quotes with no token begun.
OneTokenAdded(q) ==
  LET st == AfterSection(q)
  IN  /\ st.result = Append(sp.result, SubSeq(sp_argv, sp.p + 1, q - 1))
      /\ st.arg = <<>>
      /\ ~st.in_quote

\* C13 (as claimed): a section opened by a double quote at a token boundary,
\* without a double quote inside, closed by a double quote followed by a
\* space or the end of input, yields exactly one token holding the enclosed
\* characters, spaces and newlines included.
C13_QuotedSectionOneToken ==
  \A q \in 1..Len(sp_argv) : OpensSection(q) => OneTokenAdded(q)

\* C13 (amended): the same for a section that encloses at least one
\* character.
C13_NonEmptySectionOneToken ==
  \A q \in 1..Len(sp_argv) :
    (OpensSection(q) /\ q > sp.p + 1) => OneTokenAdded(q)

C13_Witness ==
  /\ sp_argv = <<"a", SPACE, DQUOTE, NEWLINE, SPACE, DQUOTE>>
  /\ sp.returned
  /\ sp.result = << <<"a">>, <<NEWLINE, SPACE>> >>

\* C14: for every string Split returns, and the scan position stays within
\* the characters and the terminator, the character looked at after a double
\* quote included.
C14_SplitTerminatesInBounds ==
  /\ <>sp.returned
  /\ [](/\ sp.p \in 1..(Len(sp_argv) + 1)
        /\ (~sp.returned /\ CharAt(sp_argv, sp.p) = DQUOTE)
             => sp.p + 1 <= Len(sp_argv) + 1)

C14_Witness ==
  /\ sp_argv = <<DQUOTE, "a", DQUOTE, DQUOTE, DQUOTE>>
  /\ sp.returned
  /\ sp.p = Len(sp_argv) + 1

\* C15: a run that completed normally has len(commands) * parallelism
\* results, all with success = true: the number of results and the success
\* pattern are fixed by the commands and the parallelism alone, whatever the
\* interleaving, the statuses of the children and the timings were.
C15_SuccessPatternFixed ==
  exitStatus = 0 =>
    /\ ProductIs(Len(stats), Len(commands), parallelism)
    /\ \A k \in 1..Len(stats) : stats[k].success

C15_Witness ==
  /\ exitStatus = 0
  /\ \E i, k \in Tasks :
       /\ WEXITSTATUS(threads[i].status) = EXIT_CANNOT_INVOKE
       /\ WEXITSTATUS(threads[k].status) = 0
       /\ stats[threads[i].slot].elapsed_us # stats[threads[k].slot].elapsed_us

C17_FullFanOut ==
  /\ (joined > 0 \/ mainpc \in {"join", "print", "exit"})
       => ProductIs(Len(threads), Len(commands), parallelism)
  /\ (Running /\ mainpc = "launch" /\ command_i <= Len(commands)
        /\ LoopCond(j, parallelism))
       => ENABLED Main_Launch

\* All len(commands) * parallelism children are alive at the same time.
C17_Witness ==
  /\ Len(threads) = MaxTasks
  /\ ProductIs(Len(threads), Len(commands), parallelism)
  /\ \A i \in Tasks : child[i].st = "running"
  /\ joined = 0

\* C18: while no fork or wait has failed and some child has not terminated,
\* the process is running, has printed nothing and main is before
\* PrintStats.
C18_NoTimeout ==
  (~OsFailure /\ \E i \in Tasks : child[i].st \in {"forked", "running"}) =>
    /\ Running
    /\ out = <<>>
    /\ mainpc \notin {"print", "exit"}

C18_Witness ==
  /\ Len(threads) = MaxTasks /\ mainpc = "join"
  /\ child[MaxTasks].st = "running"
  /\ \A i \in Tasks \ {MaxTasks} : threads[i].pc = "done"
  /\ joined = MaxTasks - 1

\* C19: a task has returned exactly when its own child has been reaped, the
\* status it holds is the one of its own child, and a slot has success =
\* true only when the child of its task has terminated and been reaped.
C19_OwnChild ==
  \A i \in Tasks :
    /\ threads[i].pc = "done" <=> child[i].st = "reaped"
    /\ threads[i].pc = "done" => threads[i].status = child[i].status
    /\ stats[threads[i].slot].success => child[i].st = "reaped"

C19_Witness ==
  \E i, k \in Tasks :
    /\ threads[i].pc = "wait" /\ child[i].st = "running"
    /\ ~stats[threads[i].slot].success
    /\ threads[k].pc = "wait" /\ child[k].st = "exited"
    /\ \E m \in Tasks : threads[m].pc = "done" /\ stats[threads[m].slot].success

====
